---- MODULE Spec2Model ----
(***************************************************************************)
(* A model of the storage library: File (src/unnamed/part_000, File.mjs),  *)
(* Dir (src/Dir.mjs) and the filesystem calls of fs/promises they wrap.    *)
(*                                                                         *)
(* A path string is a sequence of one-character strings.  The filesystem   *)
(* is a function from canonical paths (sequences of components below the   *)
(* root) to nodes.  The process runs with the root as working directory,   *)
(* so the relative string "a" and the absolute string "/a" name the same   *)
(* node.                                                                   *)
(***************************************************************************)
EXTENDS Integers, Sequences, FiniteSets, TLC

VARIABLES
    fs,       \* the filesystem: canonical path -> node
    phase,    \* "idle" | "copy" | "delete": position of the running call
    call,     \* the running (or last) call: [op, a1, a2, flag]
    stack,    \* activation records of Dir.copy, innermost last
    ret,      \* what the last call returned (or that it threw)
    pre,      \* history: the filesystem when the call was made
    dst,      \* history: toPath of the outermost Dir.copy once it is known
    touched,  \* history: canonical paths the call created or wrote
    created,  \* history: directories the call created with mkdir
    failed,   \* history: some File.copy of the call did not copy its file
    deleted,  \* history: Dir.move performed its delete
    calls     \* number of calls made so far

vars == <<fs, phase, call, stack, ret, pre, dst, touched, created, failed, deleted, calls>>

\* ---------------------------------------------------------------- bounds
MaxCalls == 1
MaxDepth == 4

\* ---------------------------------------------------------------- strings
Root == <<>>
NoPath == <<>>            \* an omitted (undefined) path argument: !toPath holds

a_ == <<"a">>
b_ == <<"b">>
Copy_ == <<"-", "c", "o", "p", "y">>

RECURSIVE SplitAcc(_, _, _)
SplitAcc(s, cur, acc) ==
    IF s = <<>> THEN Append(acc, cur)
    ELSE IF Head(s) = "/" THEN SplitAcc(Tail(s), <<>>, Append(acc, cur))
    ELSE SplitAcc(Tail(s), Append(cur, Head(s)), acc)

\* the components of a path string, empty ones included
Split(s) == SplitAcc(s, <<>>, <<>>)

Parent(p) == IF p = Root THEN Root ELSE SubSeq(p, 1, Len(p) - 1)

IsPrefix(p, q) == Len(p) <= Len(q) /\ SubSeq(q, 1, Len(p)) = p

\* ---------------------------------------------------------------- filesystem
DirNode == [kind |-> "dir", content |-> "", readable |-> TRUE]
FileNode(c) == [kind |-> "file", content |-> c, readable |-> TRUE]
LockedFile(c) == [kind |-> "file", content |-> c, readable |-> FALSE]

Present(f, p) == p = Root \/ p \in DOMAIN f
IsDirAt(f, p) == p = Root \/ (p \in DOMAIN f /\ f[p].kind = "dir")
IsFileAt(f, p) == p \in DOMAIN f /\ f[p].kind = "file"
Children(f, p) == {q \in DOMAIN f : Len(q) = Len(p) + 1 /\ IsPrefix(p, q)}
Under(f, p) == {q \in DOMAIN f : IsPrefix(p, q)}

\* path resolution: every component but the last is looked up in a directory
RECURSIVE Walk(_, _, _)
Walk(f, cur, cs) ==
    IF cs = <<>> THEN [ok |-> TRUE, at |-> cur]
    ELSE IF ~IsDirAt(f, cur) THEN [ok |-> FALSE, at |-> cur]
    ELSE LET c == Head(cs) IN
         IF c = <<>> \/ c = <<".">> THEN Walk(f, cur, Tail(cs))
         ELSE IF c = <<".", ".">> THEN Walk(f, Parent(cur), Tail(cs))
         ELSE Walk(f, Append(cur, c), Tail(cs))

Resolve(f, s) ==
    IF s = <<>> THEN [ok |-> FALSE, at |-> Root] ELSE Walk(f, Root, Split(s))

Restrict(f, D) == [q \in D |-> f[q]]

\* fs/promises access(p): resolves iff the path names an existing node
Access(f, s) == LET r == Resolve(f, s) IN r.ok /\ Present(f, r.at)

\* fs/promises stat(p).isDirectory(); ok = FALSE when stat rejects
Stat(f, s) ==
    LET r == Resolve(f, s) IN
    IF r.ok /\ Present(f, r.at)
    THEN [ok |-> TRUE, isDirectory |-> IsDirAt(f, r.at)]
    ELSE [ok |-> FALSE, isDirectory |-> FALSE]

\* fs/promises mkdir(p): one level, rejects when the node exists or the parent is missing
Mkdir(f, s) ==
    LET r == Resolve(f, s) IN
    IF r.ok /\ ~Present(f, r.at)
    THEN [ok |-> TRUE, at |-> r.at, fs |-> (r.at :> DirNode) @@ f]
    ELSE [ok |-> FALSE, at |-> r.at, fs |-> f]

\* fs/promises rm(p, {recursive: true}): rejects when the path does not exist
Rm(f, s) ==
    LET r == Resolve(f, s) IN
    IF r.ok /\ r.at # Root /\ r.at \in DOMAIN f
    THEN [ok |-> TRUE, fs |-> Restrict(f, DOMAIN f \ Under(f, r.at))]
    ELSE [ok |-> FALSE, fs |-> f]

\* fs/promises unlink(p): removes a file, rejects on a directory or a missing path
Unlink(f, s) ==
    LET r == Resolve(f, s) IN
    IF r.ok /\ IsFileAt(f, r.at)
    THEN [ok |-> TRUE, fs |-> Restrict(f, DOMAIN f \ {r.at})]
    ELSE [ok |-> FALSE, fs |-> f]

\* fs/promises readFile(p, 'utf-8')
ReadFile(f, s) ==
    LET r == Resolve(f, s) IN
    IF r.ok /\ IsFileAt(f, r.at) /\ f[r.at].readable
    THEN [ok |-> TRUE, content |-> f[r.at].content]
    ELSE [ok |-> FALSE, content |-> ""]

\* fs/promises writeFile(p, content): creates or overwrites a file in an existing directory
WriteFile(f, s, c) ==
    LET r == Resolve(f, s) IN
    IF r.ok /\ r.at # Root /\ ~IsDirAt(f, r.at)
    THEN [ok |-> TRUE, at |-> r.at,
          fs |-> (r.at :> (IF r.at \in DOMAIN f THEN [f[r.at] EXCEPT !.content = c]
                           ELSE FileNode(c))) @@ f]
    ELSE [ok |-> FALSE, at |-> r.at, fs |-> f]

\* fs/promises rename(old, new), as rename(2): moves the node with everything under it
OsRename(f, old, new) ==
    LET o == Resolve(f, old)
        n == Resolve(f, new)
        moved == Under(f, o.at)
        Moved(q) == n.at \o SubSeq(q, Len(o.at) + 1, Len(q))
        kept == DOMAIN f \ (moved \cup {n.at})
    IN
    IF ~(o.ok /\ o.at # Root /\ o.at \in DOMAIN f /\ n.ok /\ n.at # Root)
    THEN [ok |-> FALSE, fs |-> f]
    ELSE IF o.at = n.at THEN [ok |-> TRUE, fs |-> f]
    ELSE IF IsPrefix(o.at, n.at) THEN [ok |-> FALSE, fs |-> f]
    ELSE IF n.at \in DOMAIN f
            /\ (f[n.at].kind # f[o.at].kind \/ Children(f, n.at) # {})
    THEN [ok |-> FALSE, fs |-> f]
    ELSE [ok |-> TRUE,
          fs |-> [q \in kept \cup {Moved(m) : m \in moved} |->
                    IF \E m \in moved : Moved(m) = q
                    THEN f[CHOOSE m \in moved : Moved(m) = q]
                    ELSE f[q]]]

\* the order in which readdir enumerates a directory: fixed by the system, not by the program
Enumerate(S) ==
    IF S = {} THEN <<>>
    ELSE CHOOSE s \in [1..Cardinality(S) -> S] : \A x \in S : \E i \in DOMAIN s : s[i] = x

\* fs/promises readdir(p): the names of the immediate children
Readdir(f, s) ==
    LET r == Resolve(f, s) IN
    IF r.ok /\ IsDirAt(f, r.at) /\ (r.at = Root \/ f[r.at].readable)
    THEN [ok |-> TRUE, items |-> Enumerate({q[Len(q)] : q \in Children(f, r.at)})]
    ELSE [ok |-> FALSE, items |-> <<>>]

\* ---------------------------------------------------------------- path module, RegExp, numbers
\* path.basename(p): the last non-empty component
Basename(s) ==
    LET cs == SelectSeq(Split(s), LAMBDA c : c # <<>>) IN
    IF cs = <<>> THEN <<>> ELSE cs[Len(cs)]

LastDot(b) ==
    IF \E i \in DOMAIN b : b[i] = "."
    THEN CHOOSE i \in DOMAIN b : b[i] = "." /\ \A j \in DOMAIN b : b[j] = "." => j <= i
    ELSE 0

\* path.extname(p): from the last dot of the basename, unless that dot starts the basename
Extname(s) ==
    LET b == Basename(s) IN
    IF LastDot(b) <= 1 \/ b = <<".", ".">> THEN <<>> ELSE SubSeq(b, LastDot(b), Len(b))

\* path.parse(p).name: the basename without its extension
ParseName(s) ==
    LET b == Basename(s) IN SubSeq(b, 1, Len(b) - Len(Extname(s)))

Digit(d) == <<"0", "1", "2", "3", "4", "5", "6", "7", "8", "9">>[d + 1]

\* `${count}`: the decimal digits of a natural number
RECURSIVE Digits(_)
Digits(n) == IF n < 10 THEN <<Digit(n)>> ELSE Digits(n \div 10) \o <<Digit(n % 10)>>

\* new RegExp(src): over the characters of PathChars, "(" opens a group that nothing
\* closes, and the constructor throws a SyntaxError
RegExpThrows(src) == \E i \in DOMAIN src : src[i] = "("

\* one pattern character against one subject character: "." matches any character,
\* every other character of PathChars matches itself
CharMatches(pc, c) == pc = "." \/ pc = c

MatchAt(src, s, i) ==
    /\ i + Len(src) - 1 <= Len(s)
    /\ \A k \in DOMAIN src : CharMatches(src[k], s[i + k - 1])

\* s.replace(new RegExp(src, 'g'), rep): every match, leftmost first, without overlap
RECURSIVE ReplaceFrom(_, _, _, _)
ReplaceFrom(s, src, rep, i) ==
    IF i > Len(s) THEN <<>>
    ELSE IF MatchAt(src, s, i) THEN rep \o ReplaceFrom(s, src, rep, i + Len(src))
    ELSE <<s[i]>> \o ReplaceFrom(s, src, rep, i + 1)

ReplaceAll(s, src, rep) == ReplaceFrom(s, src, rep, 1)

\* ---------------------------------------------------------------- returned values
RBool(b) == [tag |-> "boolean", val |-> b]
RString(s) == [tag |-> "string", val |-> s]
RArray(l) == [tag |-> "array", val |-> l]
RObject(o) == [tag |-> "object", val |-> o]
RUndefined == [tag |-> "undefined"]
RThrew == [tag |-> "threw"]
RNone == [tag |-> "none"]
Err == "Error"

\* ---------------------------------------------------------------- Dir
\* Dir.exists
DirExists(f, dirName) == Access(f, dirName)

\* Dir.create
DirCreate(f, dirName) == LET m == Mkdir(f, dirName) IN [ret |-> m.ok, at |-> m.at, fs |-> m.fs]

\* Dir.rename
DirRename(f, oldDir, newDir) == LET r == OsRename(f, oldDir, newDir) IN [ret |-> r.ok, fs |-> r.fs]

\* Dir.delete
DirDelete(f, folderPath) == LET r == Rm(f, folderPath) IN [ret |-> r.ok, fs |-> r.fs]

\* Dir.check
DirCheck(f, path) == LET st == Stat(f, path) IN IF st.ok THEN st.isDirectory ELSE FALSE

\* ListInfo with the extension fields set for directories too
ListInfoAlways(filePath, isDir) ==
    [path |-> filePath, file |-> ~isDir, name |-> ParseName(filePath),
     extension |-> Extname(filePath), nameWithExtension |-> Basename(filePath)]

\* the info object of one item: extension and nameWithExtension only when it is not a directory
ListInfo(filePath, isDir) ==
    IF ~isDir
    THEN [path |-> filePath, file |-> ~isDir, name |-> ParseName(filePath),
          extension |-> Extname(filePath), nameWithExtension |-> Basename(filePath)]
    ELSE [path |-> filePath, file |-> ~isDir, name |-> ParseName(filePath)]

\* Dir.list
RECURSIVE DirList(_, _, _)
DirList(f, dirPath, listSubPath) ==
    LET rd == Readdir(f, dirPath)
        Info(item) ==
            LET filePath == dirPath \o <<"/">> \o item
                isDir == DirCheck(f, filePath)
                info == ListInfo(filePath, isDir)
            IN IF listSubPath /\ isDir
               THEN [path |-> info.path, file |-> info.file, name |-> info.name,
                     sub |-> DirList(f, filePath, TRUE)]
               ELSE info
    IN IF rd.ok THEN [i \in DOMAIN rd.items |-> Info(rd.items[i])] ELSE <<>>

\* FindName with the number appended from count = 1 on
FindNameFromOne(baseName, extension, count) ==
    IF count > 0 THEN baseName \o Copy_ \o <<"-">> \o Digits(count) \o extension
    ELSE baseName \o Copy_ \o extension

\* the name lastName tries when its counter is count
FindName(baseName, extension, count) ==
    IF count > 1 THEN baseName \o Copy_ \o <<"-">> \o Digits(count) \o extension
    ELSE baseName \o Copy_ \o extension

\* Dir.lastName: the do-while loop from a given value of count
RECURSIVE LastNameFrom(_, _, _, _)
LastNameFrom(f, baseName, extension, count) ==
    LET findName == FindName(baseName, extension, count) IN
    IF ~DirExists(f, findName) THEN findName
    ELSE LastNameFrom(f, baseName, extension, count + 1)

DirLastName(f, baseName, extension) == LastNameFrom(f, baseName, extension, 0)

\* ---------------------------------------------------------------- File
\* File.read
FileRead(f, filePath) ==
    LET r == ReadFile(f, filePath) IN
    IF r.ok
    THEN [read |-> TRUE,
          name |-> LET ext == Extname(filePath) b == Basename(filePath) IN
                   IF ext # <<>> /\ Len(ext) < Len(b) THEN SubSeq(b, 1, Len(b) - Len(ext)) ELSE b,
          content |-> r.content,
          extension |-> Extname(filePath),
          nameWithExtension |-> Basename(filePath)]
    ELSE [read |-> FALSE, content |-> Err]

\* File.create
FileCreate(f, filePath, content) ==
    LET w == WriteFile(f, filePath, content) IN
    [ret |-> IF w.ok THEN [create |-> TRUE] ELSE [create |-> FALSE, error |-> Err],
     ok |-> w.ok, at |-> w.at, fs |-> w.fs]

\* File.update
FileUpdate(f, filePath, content) ==
    LET w == WriteFile(f, filePath, content) IN
    [ret |-> IF w.ok THEN [updated |-> TRUE] ELSE [updated |-> FALSE, error |-> Err],
     ok |-> w.ok, at |-> w.at, fs |-> w.fs]

\* File.delete
FileDelete(f, filePath) ==
    LET u == Unlink(f, filePath) IN
    [ret |-> IF u.ok THEN [deleted |-> TRUE] ELSE [deleted |-> FALSE, error |-> Err],
     fs |-> u.fs]

\* File.rename: throws (and catches) when oldFile is a directory; the boolean that
\* Dir.rename returns is not looked at
FileRename(f, oldFile, newFile) ==
    IF DirCheck(f, oldFile)
    THEN [ret |-> [renamed |-> FALSE, error |-> Err], fs |-> f]
    ELSE [ret |-> [renamed |-> TRUE], fs |-> DirRename(f, oldFile, newFile).fs]

\* File.copy: File.read and File.create reject nothing, so the catch block never runs;
\* a failed read falls off the end of the function (undefined), a failed create is not
\* looked at
FileCopy(f, oldFilePath, newFilePath) ==
    LET file == FileRead(f, oldFilePath) IN
    IF file.read
    THEN LET c == FileCreate(f, newFilePath, file.content) IN
         [ret |-> RBool(TRUE), read |-> TRUE, wrote |-> c.ok, at |-> c.at, fs |-> c.fs]
    ELSE [ret |-> RUndefined, read |-> FALSE, wrote |-> FALSE, at |-> Root, fs |-> f]

\* ---------------------------------------------------------------- inputs
\* the characters path arguments are made of
PathChars == {"a", "b", "/", ".", "(", "-", "c", "o", "p", "y", "1", "2", "3"}

ab_ == <<"a", "/", "b">>          \* "a/b"
dota_ == <<".", "a">>             \* ".a"
para_ == <<"(", "a">>             \* "(a"
absa_ == <<"/", "a">>             \* "/a"
bdotb_ == <<"b", ".", "b">>       \* "b.b"
dotb_ == <<".", "b">>             \* ".b"

PathArgs == {a_, b_, ab_, dota_, para_, absa_}
Contents == {"x", "y"}

\* the names Dir.lastName("a", ext) may collide with
CopyNames == {a_ \o Copy_, a_ \o Copy_ \o <<"-", "1">>, a_ \o Copy_ \o <<"-", "2">>,
              a_ \o Copy_ \o dotb_}

NameTree(S) == [q \in {<<n>> : n \in S} |-> FileNode("x")]

\* a: an empty directory
TreeEmptyDir == (<<a_>> :> DirNode)
\* a/b/b and a/b.b: a nested tree with no name that contains "a"
TreeNested ==
    (<<a_>> :> DirNode) @@ (<<a_, b_>> :> DirNode) @@ (<<a_, b_, b_>> :> FileNode("x"))
    @@ (<<a_, bdotb_>> :> FileNode("y"))
\* a/a and a/b: a file named like its directory
TreeSameName ==
    (<<a_>> :> DirNode) @@ (<<a_, a_>> :> FileNode("x")) @@ (<<a_, b_>> :> FileNode("y"))
\* a/b cannot be read; b exists
TreeLocked ==
    (<<a_>> :> DirNode) @@ (<<a_, b_>> :> LockedFile("x")) @@ (<<b_>> :> DirNode)
\* .a/a: a hidden directory
TreeHidden == (<<dota_>> :> DirNode) @@ (<<dota_, a_>> :> FileNode("x"))
\* (a/b: a directory whose name is no regular expression
TreeParen == (<<para_>> :> DirNode) @@ (<<para_, b_>> :> FileNode("x"))

InitialTrees ==
    {TreeEmptyDir, TreeNested, TreeSameName, TreeLocked, TreeHidden, TreeParen}
    \cup {NameTree(S) : S \in SUBSET CopyNames}

\* ---------------------------------------------------------------- the state machine
Init ==
    /\ fs \in InitialTrees
    /\ phase = "idle"
    /\ call = [op |-> "none", a1 |-> NoPath, a2 |-> NoPath, content |-> "", flag |-> FALSE]
    /\ stack = <<>>
    /\ ret = RNone
    /\ pre = fs
    /\ dst = NoPath
    /\ touched = {}
    /\ created = {}
    /\ failed = FALSE
    /\ deleted = FALSE
    /\ calls = 0

CanCall == phase = "idle" /\ calls < MaxCalls

\* a call that runs to its end in one step: what it leaves and what it returns
Returns(op, a1, a2, content, flag, newfs, r) ==
    /\ CanCall
    /\ call' = [op |-> op, a1 |-> a1, a2 |-> a2, content |-> content, flag |-> flag]
    /\ pre' = fs
    /\ fs' = newfs
    /\ ret' = r
    /\ phase' = "idle"
    /\ stack' = <<>>
    /\ dst' = NoPath
    /\ touched' = {}
    /\ created' = {}
    /\ failed' = FALSE
    /\ deleted' = FALSE
    /\ calls' = calls + 1

CallFileRead(p) ==
    Returns("File.read", p, NoPath, "", FALSE, fs, RObject(FileRead(fs, p)))

CallFileCreate(p, c) ==
    LET r == FileCreate(fs, p, c) IN
    Returns("File.create", p, NoPath, c, FALSE, r.fs, RObject(r.ret))

CallFileUpdate(p, c) ==
    LET r == FileUpdate(fs, p, c) IN
    Returns("File.update", p, NoPath, c, FALSE, r.fs, RObject(r.ret))

CallFileDelete(p) ==
    LET r == FileDelete(fs, p) IN
    Returns("File.delete", p, NoPath, "", FALSE, r.fs, RObject(r.ret))

CallFileRename(o, n) ==
    LET r == FileRename(fs, o, n) IN
    Returns("File.rename", o, n, "", FALSE, r.fs, RObject(r.ret))

CallFileCopy(o, n) ==
    LET r == FileCopy(fs, o, n) IN
    Returns("File.copy", o, n, "", FALSE, r.fs, r.ret)

CallDirExists(p) ==
    Returns("Dir.exists", p, NoPath, "", FALSE, fs, RBool(DirExists(fs, p)))

CallDirCreate(p) ==
    LET r == DirCreate(fs, p) IN
    Returns("Dir.create", p, NoPath, "", FALSE, r.fs, RBool(r.ret))

CallDirRename(o, n) ==
    LET r == DirRename(fs, o, n) IN
    Returns("Dir.rename", o, n, "", FALSE, r.fs, RBool(r.ret))

CallDirDelete(p) ==
    LET r == DirDelete(fs, p) IN
    Returns("Dir.delete", p, NoPath, "", FALSE, r.fs, RBool(r.ret))

CallDirCheck(p) ==
    Returns("Dir.check", p, NoPath, "", FALSE, fs, RBool(DirCheck(fs, p)))

CallDirList(p, listSubPath) ==
    Returns("Dir.list", p, NoPath, "", listSubPath, fs, RArray(DirList(fs, p, listSubPath)))

CallDirLastName(baseName, extension) ==
    Returns("Dir.lastName", baseName, extension, "", FALSE, fs,
            RString(DirLastName(fs, baseName, extension)))

\* ---------------------------------------------------------------- Dir.copy, Dir.move
Frame(of, to) == [ofPath |-> of, toPath |-> to, copies |-> <<>>, entered |-> FALSE]
Top == stack[Len(stack)]
SetTop(fr) == [stack EXCEPT ![Len(stack)] = fr]

Starts(op, of, to) ==
    /\ CanCall
    /\ call' = [op |-> op, a1 |-> of, a2 |-> to, content |-> "", flag |-> FALSE]
    /\ pre' = fs
    /\ phase' = "copy"
    /\ stack' = <<Frame(of, to)>>
    /\ ret' = RNone
    /\ dst' = NoPath
    /\ touched' = {}
    /\ created' = {}
    /\ failed' = FALSE
    /\ deleted' = FALSE
    /\ calls' = calls + 1
    /\ UNCHANGED fs

CallDirCopy(of, to) == Starts("Dir.copy", of, to)

CallDirMove(of, to) == Starts("Dir.move", of, to)

\* Dir.copy up to its loop: toPath from lastName when omitted, created when absent,
\* then the listing of ofPath
CopyEnter ==
    /\ phase = "copy" /\ stack # <<>> /\ ~Top.entered
    /\ LET toPath == IF Top.toPath = NoPath THEN DirLastName(fs, Top.ofPath, <<>>)
                     ELSE Top.toPath
           made == IF ~DirExists(fs, toPath) THEN DirCreate(fs, toPath)
                   ELSE [ret |-> FALSE, at |-> Root, fs |-> fs]
       IN /\ fs' = made.fs
          /\ stack' = SetTop([ofPath |-> Top.ofPath, toPath |-> toPath,
                              copies |-> DirList(made.fs, Top.ofPath, FALSE),
                              entered |-> TRUE])
          /\ touched' = IF made.ret THEN touched \cup {made.at} ELSE touched
          /\ created' = IF made.ret THEN created \cup {made.at} ELSE created
          /\ dst' = IF Len(stack) = 1 THEN toPath ELSE dst
    /\ UNCHANGED <<phase, call, ret, pre, failed, deleted, calls>>

InLoop == phase = "copy" /\ stack # <<>> /\ Top.entered /\ Top.copies # <<>>

\* the path an item is copied to
After(before, ofPath, toPath) == ReplaceAll(before, ofPath, toPath)

\* new RegExp(ofPath, 'g') throws: nothing in Dir.copy or Dir.move catches it
CopyItemThrows ==
    /\ InLoop
    /\ RegExpThrows(Top.ofPath)
    /\ ret' = RThrew
    /\ phase' = "idle"
    /\ stack' = <<>>
    /\ UNCHANGED <<fs, call, pre, dst, touched, created, failed, deleted, calls>>

\* the item is a directory: Dir.copy calls itself
CopyItemDir ==
    /\ InLoop
    /\ ~RegExpThrows(Top.ofPath)
    /\ ~Head(Top.copies).file
    /\ Len(stack) < MaxDepth
    /\ LET item == Head(Top.copies)
           after == After(item.path, Top.ofPath, Top.toPath)
       IN stack' = Append(SetTop([Top EXCEPT !.copies = Tail(Top.copies)]),
                          Frame(item.path, after))
    /\ UNCHANGED <<fs, phase, call, ret, pre, dst, touched, created, failed, deleted, calls>>

\* the item is a file: File.copy, whose result is not looked at
CopyItemFile ==
    /\ InLoop
    /\ ~RegExpThrows(Top.ofPath)
    /\ Head(Top.copies).file
    /\ LET item == Head(Top.copies)
           after == After(item.path, Top.ofPath, Top.toPath)
           r == FileCopy(fs, item.path, after)
       IN /\ fs' = r.fs
          /\ touched' = IF r.wrote THEN touched \cup {r.at} ELSE touched
          /\ failed' = (failed \/ ~r.wrote)
    /\ stack' = SetTop([Top EXCEPT !.copies = Tail(Top.copies)])
    /\ UNCHANGED <<phase, call, ret, pre, dst, created, deleted, calls>>

CopyItem == CopyItemThrows \/ CopyItemDir \/ CopyItemFile

\* the loop is over: return true to the caller, which is Dir.copy, Dir.move or the user
CopyReturn ==
    /\ phase = "copy" /\ stack # <<>> /\ Top.entered /\ Top.copies = <<>>
    /\ stack' = SubSeq(stack, 1, Len(stack) - 1)
    /\ IF Len(stack) > 1 THEN UNCHANGED <<phase, ret>>
       ELSE IF call.op = "Dir.move" THEN phase' = "delete" /\ UNCHANGED ret
       ELSE phase' = "idle" /\ ret' = RBool(TRUE)
    /\ UNCHANGED <<fs, call, pre, dst, touched, created, failed, deleted, calls>>

\* Dir.move after its copy: delete(ofPath); the function returns nothing
MoveDelete ==
    /\ phase = "delete"
    /\ fs' = DirDelete(fs, call.a1).fs
    /\ deleted' = TRUE
    /\ phase' = "idle"
    /\ ret' = RUndefined
    /\ UNCHANGED <<call, stack, pre, dst, touched, created, failed, calls>>

Next ==
    \/ \E p \in PathArgs : CallFileRead(p)
    \/ \E p \in PathArgs, c \in Contents : CallFileCreate(p, c)
    \/ \E p \in PathArgs, c \in Contents : CallFileUpdate(p, c)
    \/ \E p \in PathArgs : CallFileDelete(p)
    \/ \E o \in PathArgs, n \in PathArgs : CallFileRename(o, n)
    \/ \E o \in PathArgs, n \in PathArgs : CallFileCopy(o, n)
    \/ \E p \in PathArgs : CallDirExists(p)
    \/ \E p \in PathArgs : CallDirCreate(p)
    \/ \E o \in PathArgs, n \in PathArgs : CallDirRename(o, n)
    \/ \E p \in PathArgs : CallDirDelete(p)
    \/ \E p \in PathArgs : CallDirCheck(p)
    \/ \E p \in PathArgs, r \in BOOLEAN : CallDirList(p, r)
    \/ \E p \in PathArgs, e \in {<<>>, dotb_} : CallDirLastName(p, e)
    \/ \E o \in PathArgs, n \in PathArgs \cup {NoPath} : CallDirCopy(o, n)
    \/ \E o \in PathArgs, n \in PathArgs \cup {NoPath} : CallDirMove(o, n)
    \/ CopyEnter
    \/ CopyItem
    \/ CopyReturn
    \/ MoveDelete

Spec == Init /\ [][Next]_vars

TypeOK ==
    /\ phase \in {"idle", "copy", "delete"}
    /\ calls \in 0..MaxCalls
    /\ \A q \in DOMAIN fs : q # Root /\ IsDirAt(fs, Parent(q))

\* Dir.lastName alone, on every initial filesystem
NextLastName == \E p \in PathArgs, e \in {<<>>, dotb_} : CallDirLastName(p, e)

SpecLastName == Init /\ [][NextLastName]_vars

\* Dir.list alone or after a file or a directory was created
NextList ==
    \/ \E p \in PathArgs, r \in BOOLEAN : CallDirList(p, r)
    \/ \E p \in PathArgs : CallDirCreate(p)
    \/ \E p \in PathArgs, c \in Contents : CallFileCreate(p, c)

SpecList == Init /\ [][NextList]_vars

\* ---------------------------------------------------------------- properties
Finished(op) == phase = "idle" /\ call.op = op
SrcAt == Resolve(pre, call.a1)
DstAt == Resolve(pre, call.a2)

\* the node at q under src, re-rooted at dest
Rebase(q, src, dest) == dest \o SubSeq(q, Len(src) + 1, Len(q))

\* every directory and file under src in f0 is under dest in f1, files with the same content
TreePresent(f0, src, f1, dest) ==
    \A q \in Under(f0, src) \ {src} :
        LET d == Rebase(q, src, dest) IN
        /\ d \in DOMAIN f1
        /\ f1[d].kind = f0[q].kind
        /\ f0[q].kind = "file" => f1[d].content = f0[q].content

\* a source directory whose files can all be read, and a destination that does not exist
\* yet, in an existing directory outside the source
CleanCopyArgs ==
    /\ call.a2 # NoPath
    /\ SrcAt.ok /\ SrcAt.at # Root /\ IsDirAt(pre, SrcAt.at)
    /\ \A q \in Under(pre, SrcAt.at) : pre[q].readable
    /\ DstAt.ok /\ ~Present(pre, DstAt.at)
    /\ ~IsPrefix(SrcAt.at, DstAt.at)

\* C1: after Dir.copy(sourceDir, destDir) returns, every directory and every file of the
\* source tree is at the same relative path under destDir, files with identical content
C1_CopyReproducesTree ==
    (Finished("Dir.copy") /\ ret = RBool(TRUE) /\ CleanCopyArgs)
        => TreePresent(pre, SrcAt.at, fs, DstAt.at)

\* C2: once Dir.move(sourceDir, destDir) has completed and no file copy failed, sourceDir
\* does not exist and the tree that was under it is under destDir
C2_MoveMovesTree ==
    (Finished("Dir.move") /\ ret.tag # "threw" /\ ~failed /\ CleanCopyArgs)
        => /\ ~DirExists(fs, call.a1)
           /\ TreePresent(pre, SrcAt.at, fs, DstAt.at)

\* C3: every call of Dir.move performs the delete of sourcePath (after its copy)
C3_MoveAlwaysDeletes == Finished("Dir.move") => deleted

\* C4: File.copy returns true only when oldPath was read and its content written to
\* newPath, and returns the boolean false whenever the read or the write fails
C4_FileCopyResult ==
    Finished("File.copy") =>
        LET rd == ReadFile(pre, call.a1)
            wr == WriteFile(pre, call.a2, rd.content)
            isTrue == ret.tag = "boolean" /\ ret.val
            isFalse == ret.tag = "boolean" /\ ~ret.val
        IN /\ isTrue => (rd.ok /\ wr.ok /\ fs = wr.fs)
           /\ (~rd.ok \/ ~wr.ok) => isFalse

\* C5: File.rename returns renamed = false (with an error) whenever oldPath is a directory
\* or the rename of the system fails, renamed = true only when the path was renamed, and
\* a failure result leaves the filesystem unchanged
C5_FileRenameResult ==
    Finished("File.rename") =>
        LET os == OsRename(pre, call.a1, call.a2)
            res == ret.val
        IN /\ (DirCheck(pre, call.a1) \/ ~os.ok) => (~res.renamed /\ "error" \in DOMAIN res)
           /\ res.renamed => (os.ok /\ fs = os.fs)
           /\ ~res.renamed => fs = pre

\* the k-th name of the sequence base-copy+ext, base-copy-2+ext, base-copy-3+ext, ...
NthCopyName(base, ext, k) ==
    IF k = 1 THEN base \o <<"-", "c", "o", "p", "y">> \o ext
    ELSE base \o <<"-", "c", "o", "p", "y", "-">> \o Digits(k) \o ext

\* C6: Dir.lastName(baseName, extension) returns the first name of the sequence
\* baseName-copy+ext, baseName-copy-2+ext, baseName-copy-3+ext, ... that does not exist:
\* the returned path does not exist, every earlier name of the sequence exists, and no
\* name with the suffix -copy-1 or -copy-0 is returned
C6_LastNameFirstUnused ==
    Finished("Dir.lastName") =>
        LET base == call.a1
            ext == call.a2
        IN /\ ret.tag = "string"
           /\ \E k \in 1..(Cardinality(DOMAIN fs) + 1) :
                /\ ret.val = NthCopyName(base, ext, k)
                /\ \A j \in 1..(k - 1) : Access(fs, NthCopyName(base, ext, j))
           /\ ~Access(fs, ret.val)
           /\ ret.val # base \o <<"-", "c", "o", "p", "y", "-", "1">> \o ext
           /\ ret.val # base \o <<"-", "c", "o", "p", "y", "-", "0">> \o ext

\* a-copy exists (and a-copy-1 may), and lastName("a") returned a-copy-2
C6_Witness ==
    /\ Finished("Dir.lastName")
    /\ call.a1 = a_ /\ call.a2 = <<>>
    /\ <<a_ \o Copy_>> \in DOMAIN fs
    /\ ret.tag = "string"
    /\ ret.val = <<"a", "-", "c", "o", "p", "y", "-", "2">>

\* the entries of a listing against the children of the directory at dir, in the order
\* readdir gives them, and the same for every sub listing
RECURSIVE EntriesMatch(_, _, _, _)
EntriesMatch(f, entries, dir, recursive) ==
    LET names == Enumerate({q[Len(q)] : q \in Children(f, dir)}) IN
    /\ Len(entries) = Cardinality(Children(f, dir))
    /\ \A i \in DOMAIN entries :
        LET e == entries[i]
            child == Append(dir, names[i])
            isDir == IsDirAt(f, child)
        IN /\ Resolve(f, e.path) = [ok |-> TRUE, at |-> child]
           /\ e.file = ~isDir
           /\ ("extension" \in DOMAIN e) = ~isDir
           /\ ("nameWithExtension" \in DOMAIN e) = ~isDir
           /\ ("sub" \in DOMAIN e) = (recursive /\ isDir)
           /\ "sub" \in DOMAIN e =>
                /\ e.sub = DirList(f, e.path, TRUE)
                /\ f[child].readable => EntriesMatch(f, e.sub, child, TRUE)

\* C7: for a readable directory D, Dir.list(D, recursive) returns one entry per immediate
\* child of D, in enumeration order; an entry is a file iff the child is not a directory;
\* extension and nameWithExtension are there iff it is a file; the sub listing is there iff
\* recursive is true and the entry is a directory, and then it is Dir.list(child, true)
C7_ListEntries ==
    (Finished("Dir.list") /\ Readdir(pre, call.a1).ok)
        => /\ ret.tag = "array"
           /\ EntriesMatch(pre, ret.val, SrcAt.at, call.flag)

\* a recursive listing with a file entry and a directory entry whose sub listing is not empty
C7_Witness ==
    /\ Finished("Dir.list") /\ call.flag /\ Readdir(pre, call.a1).ok
    /\ ret.tag = "array"
    /\ \E i \in DOMAIN ret.val : ret.val[i].file
    /\ \E i \in DOMAIN ret.val : ~ret.val[i].file /\ Len(ret.val[i].sub) > 0

\* C8: no operation throws past its own boundary
C8_NothingThrows == ret.tag # "threw"

\* C9: the recursion of Dir.copy into subdirectories never enters a directory that the
\* same copy created
C9_NoRevisit ==
    phase = "copy" =>
        \A i \in 2..Len(stack) :
            LET r == Resolve(fs, stack[i].ofPath) IN ~(r.ok /\ r.at \in created)

\* C10: when destPath is neither sourcePath nor under it, Dir.copy changes nothing at or
\* under sourcePath and creates or writes only destPath and paths under destPath
C10_CopyWritesOnlyUnderDest ==
    (call.op = "Dir.copy" /\ call.a2 # NoPath /\ SrcAt.ok /\ DstAt.ok
     /\ ~IsPrefix(SrcAt.at, DstAt.at))
        => /\ \A q \in touched : IsPrefix(DstAt.at, q)
           /\ Under(fs, SrcAt.at) = Under(pre, SrcAt.at)
           /\ \A q \in Under(pre, SrcAt.at) : fs[q] = pre[q]

====
